---- MODULE Spec2Model ----
(***************************************************************************)
(* Model of gcode2as' command line front end (src/main.py): the layered    *)
(* parameter resolution of cli(), its validation and output writing, the   *)
(* statistics scraper parse_3d_printing_stats, the post-processing pass    *)
(* remove_semicolon_lines, and the PathSimplifier contract of the          *)
(* translation engine.                                                     *)
(*                                                                         *)
(* Text is a sequence of tokens.  Numerals are spelled character by        *)
(* character ("3","0",".","0"); a word the code only ever compares or      *)
(* copies as a whole ("Metal 3D Printing", "layer_height") is one token.   *)
(* Floats are kept in tenths: 2.4 is 24, 30.0 is 300.                      *)
(***************************************************************************)
EXTENDS Integers, Sequences, FiniteSets, TLC

VARIABLES
    pc,             \* position of the run
    inp,            \* the run's environment: CLI flags, options.ini, input_parameters.txt
    srcLines,       \* the lines of the source G-code file
    config,         \* cli: the ConfigParser read from the parameter file (or None)
    options,        \* cli: the dict parsed from options.ini
    param_dict,     \* cli: the dict built from the CLI flags and the defaults
    hdr,            \* cli: the locals welding_speed, line_width, layer_height, first_layer_height
    mode,           \* cli: the mode read back from config
    min_distance,   \* cli: the min_dist read back from config, in tenths
    executeCalls,   \* the calls made to selected_mode.execute
    lines_as,       \* what execute returned
    formatted,      \* the formatted program, as written by cli at line 211
    outFile,        \* the output program file <filename>.pg
    paramsOut,      \* what update_parameters wrote to input_parameters.txt
    stats,          \* the dict returned by parse_3d_printing_stats
    commands,       \* simplifier: the parsed command stream
    minDist,        \* simplifier: the threshold d, in half units
    simplified      \* simplifier: the retained waypoints

vars == <<pc, inp, srcLines, config, options, param_dict, hdr, mode, min_distance,
          executeCalls, lines_as, formatted, outFile, paramsOut, stats,
          commands, minDist, simplified>>

simplifierVars == <<commands, minDist, simplified>>

-----------------------------------------------------------------------------
(* Python values and their conversions                                     *)

NoneV == [t |-> "None", n |-> 0, s |-> <<>>]
PyInt(i) == [t |-> "int", n |-> i, s |-> <<>>]
PyFloat(tenths) == [t |-> "float", n |-> tenths, s |-> <<>>]
PyBool(b) == [t |-> "bool", n |-> IF b THEN 1 ELSE 0, s |-> <<>>]
PyStr(text) == [t |-> "str", n |-> 0, s |-> text]

DigitChars == <<"0", "1", "2", "3", "4", "5", "6", "7", "8", "9">>

IsDigit(c) == \E d \in 1..10 : DigitChars[d] = c

DigitVal(c) == (CHOOSE d \in 1..10 : DigitChars[d] = c) - 1

RECURSIVE NatToText(_)
NatToText(n) ==
    IF n < 10 THEN <<DigitChars[n + 1]>>
    ELSE NatToText(n \div 10) \o <<DigitChars[(n % 10) + 1]>>

Abs(i) == IF i < 0 THEN -i ELSE i

Sign(i) == IF i < 0 THEN <<"-">> ELSE <<>>

\* str(i) of an int
StrInt(i) == Sign(i) \o NatToText(Abs(i))

\* str(x) of a float with one decimal: 30.0 -> "30.0", -1.0 -> "-1.0"
StrFloat(tenths) ==
    Sign(tenths) \o NatToText(Abs(tenths) \div 10) \o <<".">>
        \o <<DigitChars[(Abs(tenths) % 10) + 1]>>

\* str(value), also what an f-string prints
Str(val) ==
    CASE val.t = "int" -> StrInt(val.n)
      [] val.t = "float" -> StrFloat(val.n)
      [] val.t = "bool" -> IF val.n = 1 THEN <<"True">> ELSE <<"False">>
      [] val.t = "str" -> val.s
      [] OTHER -> <<"None">>

RECURSIVE NatOfText(_)
NatOfText(text) ==
    IF text = <<>> THEN 0
    ELSE NatOfText(SubSeq(text, 1, Len(text) - 1)) * 10 + DigitVal(text[Len(text)])

AllDigits(text) == \A i \in 1..Len(text) : IsDigit(text[i])

IsSpace(c) == c \in {" ", "\t", "\n"}

RECURSIVE LStrip(_)
LStrip(text) ==
    IF text # <<>> /\ IsSpace(text[1]) THEN LStrip(Tail(text)) ELSE text

RECURSIVE RStrip(_)
RStrip(text) ==
    IF text # <<>> /\ IsSpace(text[Len(text)])
    THEN RStrip(SubSeq(text, 1, Len(text) - 1))
    ELSE text

\* str.strip()
Strip(text) == RStrip(LStrip(text))

\* the index of the first occurrence of token c in text, 0 when there is none
IndexOf(text, c) ==
    IF \E i \in 1..Len(text) : text[i] = c
    THEN CHOOSE i \in 1..Len(text) : text[i] = c /\ \A j \in 1..(i - 1) : text[j] # c
    ELSE 0

\* float(text) is defined: [-]digits[.digit], surrounding whitespace allowed
FloatOk(text) ==
    LET body == Strip(text)
        unsigned == IF body # <<>> /\ body[1] = "-" THEN Tail(body) ELSE body
        dot == IndexOf(unsigned, ".")
        whole == IF dot = 0 THEN unsigned ELSE SubSeq(unsigned, 1, dot - 1)
        frac == IF dot = 0 THEN <<>> ELSE SubSeq(unsigned, dot + 1, Len(unsigned))
    IN  /\ whole # <<>>
        /\ AllDigits(whole)
        /\ AllDigits(frac)
        /\ Len(frac) <= 1

\* float(text), in tenths; a ValueError where FloatOk(text) is false
ParseFloat(text) ==
    LET body == Strip(text)
        neg == body # <<>> /\ body[1] = "-"
        unsigned == IF neg THEN Tail(body) ELSE body
        dot == IndexOf(unsigned, ".")
        whole == IF dot = 0 THEN unsigned ELSE SubSeq(unsigned, 1, dot - 1)
        frac == IF dot = 0 THEN <<>> ELSE SubSeq(unsigned, dot + 1, Len(unsigned))
        mag == NatOfText(whole) * 10 + (IF frac = <<>> THEN 0 ELSE DigitVal(frac[1]))
    IN  IF neg THEN -mag ELSE mag

-----------------------------------------------------------------------------
(* The environment of a run of cli()                                       *)

Keys == {"mode", "min_dist", "vase_mode", "welding_speed", "inverted", "output",
         "line_width", "layer_height", "first_layer_height"}

\* the keys remove_semicolon_lines prints in the header, in header order
HeaderKeys == <<"welding_speed", "line_width", "layer_height", "first_layer_height">>

EmptyMap == [k \in {} |-> <<>>]

DEFAULT_MIN_DISTANCE == 2
DEFAULT_LINE_WIDTH == 24
DEFAULT_LAYER_HEIGHT == 1
DEFAULT_FIRST_LAYER_HEIGHT == 12

default_params_wrong_speed(key) ==
    CASE key = "mode" -> PyStr(<<"Metal 3D Printing">>)
      [] key = "min_dist" -> PyInt(DEFAULT_MIN_DISTANCE)
      [] key = "vase_mode" -> PyBool(FALSE)
      [] key = "welding_speed" -> PyFloat(30)
      [] key = "inverted" -> PyBool(FALSE)
      [] key = "output" -> PyStr(<<"./">>)
      [] key = "line_width" -> PyFloat(DEFAULT_LINE_WIDTH)
      [] key = "layer_height" -> PyInt(DEFAULT_LAYER_HEIGHT)
      [] key = "first_layer_height" -> PyFloat(DEFAULT_FIRST_LAYER_HEIGHT)

default_params(key) ==
    CASE key = "mode" -> PyStr(<<"Metal 3D Printing">>)
      [] key = "min_dist" -> PyInt(DEFAULT_MIN_DISTANCE)
      [] key = "vase_mode" -> PyBool(FALSE)
      [] key = "welding_speed" -> PyFloat(300)
      [] key = "inverted" -> PyBool(FALSE)
      [] key = "output" -> PyStr(<<"./">>)
      [] key = "line_width" -> PyFloat(DEFAULT_LINE_WIDTH)
      [] key = "layer_height" -> PyInt(DEFAULT_LAYER_HEIGHT)
      [] key = "first_layer_height" -> PyFloat(DEFAULT_FIRST_LAYER_HEIGHT)

\* the keys of the dict built at line 120: the message of each mode class.
\* The classes are not part of main.py; the default mode of line 135 is taken
\* to be the message of Metal.
modes == {<<"FDM 3D Printing">>, <<"Metal 3D Printing">>, <<"Laser Cutting">>}

\* the values a CLI flag may carry in the model: a valid and an unknown mode,
\* a positive and a negative min_dist, one value for every other flag
CliAlts(key) == IF key \in {"mode", "min_dist"} THEN {1, 2} ELSE {1}

CliValue(key, alt) ==
    CASE key = "mode" ->
            IF alt = 1 THEN PyStr(<<"FDM 3D Printing">>) ELSE PyStr(<<"Lathe">>)
      [] key = "min_dist" -> IF alt = 1 THEN PyFloat(50) ELSE PyFloat(-10)
      [] key = "vase_mode" -> PyBool(TRUE)
      [] key = "welding_speed" -> PyFloat(455)
      [] key = "inverted" -> PyBool(TRUE)
      [] key = "output" -> PyStr(<<"out/">>)
      [] key = "line_width" -> PyFloat(30)
      [] key = "layer_height" -> PyFloat(5)
      [] key = "first_layer_height" -> PyFloat(8)

\* the values options.ini may give: the second line_width is not a number
OptAlts(key) == IF key = "line_width" THEN {1, 2} ELSE {1}

OptText(key, alt) ==
    CASE key = "mode" -> <<"Laser Cutting">>
      [] key = "min_dist" -> <<"4", ".", "0">>
      [] key = "vase_mode" -> <<"True">>
      [] key = "welding_speed" -> <<"4", "0", ".", "0">>
      [] key = "inverted" -> <<"True">>
      [] key = "output" -> <<"opt/">>
      [] key = "line_width" -> IF alt = 1 THEN <<"3", ".", "5">> ELSE <<"w", "i", "d", "e">>
      [] key = "layer_height" -> <<"0", ".", "2">>
      [] key = "first_layer_height" -> <<"0", ".", "3">>

\* the values input_parameters.txt may hold before the run
FileAlts(key) == IF key = "min_dist" THEN {1, 2} ELSE {1}

FileText(key, alt) ==
    CASE key = "mode" -> <<"FDM 3D Printing">>
      [] key = "min_dist" -> IF alt = 1 THEN <<"7", ".", "0">> ELSE <<"-", "3", ".", "0">>
      [] key = "vase_mode" -> <<"True">>
      [] key = "welding_speed" -> <<"2", "5", ".", "0">>
      [] key = "inverted" -> <<"True">>
      [] key = "output" -> <<"file/">>
      [] key = "line_width" -> <<"1", ".", "8">>
      [] key = "layer_height" -> <<"0", ".", "6">>
      [] key = "first_layer_height" -> <<"0", ".", "9">>

\* how many (source, key) values a run's environment sets in all
MaxSettings == 2

AllSettings ==
    {[src |-> "cli", key |-> k, alt |-> a] : k \in Keys, a \in {1, 2}}
    \cup {[src |-> "options", key |-> k, alt |-> a] : k \in Keys, a \in {1, 2}}
    \cup {[src |-> "file", key |-> k, alt |-> a] : k \in Keys, a \in {1, 2}}

ValidSetting(st) ==
    CASE st.src = "cli" -> st.alt \in CliAlts(st.key)
      [] st.src = "options" -> st.alt \in OptAlts(st.key)
      [] st.src = "file" -> st.alt \in FileAlts(st.key)

Settings == {st \in AllSettings : ValidSetting(st)}

RECURSIVE SettingSets(_)
SettingSets(n) ==
    IF n = 0 THEN {{}}
    ELSE LET smaller == SettingSets(n - 1)
         IN  smaller \cup
             {T \cup {st} : T \in smaller, st \in Settings}

\* a source gives a key at most one value
Consistent(S) ==
    \A a \in S, b \in S : (a.src = b.src /\ a.key = b.key) => a = b

KeysOf(S, src) == {st.key : st \in {x \in S : x.src = src}}

AltOf(S, src, key) == (CHOOSE st \in S : st.src = src /\ st.key = key).alt

\* the environment a set of settings describes
Environment(S, hasSection) ==
    [cli |-> [k \in Keys |->
                IF k \in KeysOf(S, "cli") THEN CliValue(k, AltOf(S, "cli", k)) ELSE NoneV],
     optionsIni |-> [k \in KeysOf(S, "options") |-> OptText(k, AltOf(S, "options", k))],
     paramFile |-> [hasSection |-> hasSection,
                    default |-> [k \in KeysOf(S, "file") |->
                                    FileText(k, AltOf(S, "file", k))]]]

-----------------------------------------------------------------------------
(* cli(): reading and resolving the parameters                             *)

ConfigNone == [none |-> TRUE, d |-> EmptyMap]

\* config.read(file_path); None unless the file has a section besides DEFAULT
read_input_parameters(paramFile) ==
    IF paramFile.hasSection
    THEN [none |-> FALSE, d |-> paramFile.default]
    ELSE ConfigNone

\* every key of the DEFAULT section of options.ini
parse_options_ini(optionsIni) == [k \in DOMAIN optionsIni |-> optionsIni[k]]

\* lines 147-157: "mode or default" and "output or default" also replace '',
\* the other flags are replaced only when None
build_param_dict(cli) ==
    [k \in Keys |->
        IF k \in {"mode", "output"}
        THEN IF cli[k] = NoneV \/ cli[k] = PyStr(<<>>) THEN default_params(k) ELSE cli[k]
        ELSE IF cli[k] # NoneV THEN cli[k] ELSE default_params(k)]

\* float(options[key]) raises no ValueError in update_parameters_based_on_input
OptionsParse(opts) ==
    \A k \in {"layer_height", "first_layer_height", "line_width"} \cap DOMAIN opts :
        FloatOk(opts[k])

\* lines 61-72: the three keys options.ini overrides; welding_speed passes through
update_parameters_based_on_input(opts, welding_speed, line_width, layer_height, first_layer_height) ==
    [welding_speed |-> welding_speed,
     line_width |-> IF "line_width" \in DOMAIN opts
                    THEN PyFloat(ParseFloat(opts["line_width"])) ELSE line_width,
     layer_height |-> IF "layer_height" \in DOMAIN opts
                      THEN PyFloat(ParseFloat(opts["layer_height"])) ELSE layer_height,
     first_layer_height |-> IF "first_layer_height" \in DOMAIN opts
                            THEN PyFloat(ParseFloat(opts["first_layer_height"]))
                            ELSE first_layer_height]

\* lines 163-168: param_dict holds every key, so the inner branch never runs
update_config_loop(d, pd) ==
    [k \in DOMAIN d \cup Keys |->
        IF k \in Keys
        THEN IF k \notin DOMAIN pd
             THEN IF k \notin DOMAIN d THEN Str(default_params(k)) ELSE d[k]
             ELSE Str(pd[k])
        ELSE d[k]]

\* lines 41-47: every key of params is written into DEFAULT; the result is saved
update_parameters(d, params) ==
    [k \in DOMAIN d \cup DOMAIN params |->
        IF k \in DOMAIN params THEN Str(params[k]) ELSE d[k]]

NotRun == [none |-> TRUE, lines |-> <<>>]

\* the instruction sequences execute may return in the model
Programs ==
    {<<<<"LMOVE", " ", "p", "1">>, <<"\t", ";", " ", "layer_height", " ", "=", " ", "1">>>>,
     <<<<"SPEED", " ", "3", "0", " ", ";", "weld">>>>}

InitCli(S, hasSection, src) ==
    /\ pc = "start"
    /\ inp = Environment(S, hasSection)
    /\ srcLines = src
    /\ config = ConfigNone
    /\ options = EmptyMap
    /\ param_dict = EmptyMap
    /\ hdr = [k \in {HeaderKeys[i] : i \in 1..Len(HeaderKeys)} |-> inp.cli[k]]
    /\ mode = <<>>
    /\ min_distance = 0
    /\ executeCalls = <<>>
    /\ lines_as = NotRun
    /\ formatted = <<>>
    /\ outFile = <<>>
    /\ paramsOut = EmptyMap
    /\ stats = [estimated_printing_time |-> NoneV, total_filament_cost |-> NoneV,
                total_filament_used |-> NoneV]
    /\ commands = <<>>
    /\ minDist = 0
    /\ simplified = <<>>

\* lines 126-128
ReadInputParameters ==
    /\ pc = "start"
    /\ config' = read_input_parameters(inp.paramFile)
    /\ pc' = IF config'.none THEN "aborted" ELSE "parse_options"
    /\ UNCHANGED <<inp, srcLines, options, param_dict, hdr, mode, min_distance,
                   executeCalls, lines_as, formatted, outFile, paramsOut, stats,
                   simplifierVars>>

\* line 131
ParseOptionsIni ==
    /\ pc = "parse_options"
    /\ options' = parse_options_ini(inp.optionsIni)
    /\ pc' = "build"
    /\ UNCHANGED <<inp, srcLines, config, param_dict, hdr, mode, min_distance,
                   executeCalls, lines_as, formatted, outFile, paramsOut, stats,
                   simplifierVars>>

\* lines 134-157
BuildParamDict ==
    /\ pc = "build"
    /\ param_dict' = build_param_dict(inp.cli)
    /\ pc' = "update_input"
    /\ UNCHANGED <<inp, srcLines, config, options, hdr, mode, min_distance,
                   executeCalls, lines_as, formatted, outFile, paramsOut, stats,
                   simplifierVars>>

\* line 160; a ValueError of float() is not caught and ends the run
UpdateParametersBasedOnInput ==
    /\ pc = "update_input"
    /\ IF OptionsParse(options)
       THEN /\ hdr' = update_parameters_based_on_input(options,
                          param_dict["welding_speed"], param_dict["line_width"],
                          param_dict["layer_height"], param_dict["first_layer_height"])
            /\ pc' = "update_config"
       ELSE /\ hdr' = hdr
            /\ pc' = "crashed"
    /\ UNCHANGED <<inp, srcLines, config, options, param_dict, mode, min_distance,
                   executeCalls, lines_as, formatted, outFile, paramsOut, stats,
                   simplifierVars>>

\* lines 163-171: the loop over default_params, then update_parameters, which
\* writes the parameter file back
UpdateConfig ==
    /\ pc = "update_config"
    /\ config' = [none |-> FALSE,
                  d |-> update_parameters(update_config_loop(config.d, param_dict),
                                          param_dict)]
    /\ paramsOut' = config'.d
    /\ pc' = "validate_mode"
    /\ UNCHANGED <<inp, srcLines, options, param_dict, hdr, mode, min_distance,
                   executeCalls, lines_as, formatted, outFile, stats, simplifierVars>>

-----------------------------------------------------------------------------
(* parse_3d_printing_stats                                                 *)

TIME == "estimated printing time (normal mode)"
COST == "total filament cost"
USED == "total filament used [g]"

\* \s* from index j: the index of the first token that is not whitespace
RECURSIVE SkipWs(_, _)
SkipWs(line, j) ==
    IF j <= Len(line) /\ IsSpace(line[j]) THEN SkipWs(line, j + 1) ELSE j

\* \d* from index j: the index of the first token that is not a digit
RECURSIVE SkipDigits(_, _)
SkipDigits(line, j) ==
    IF j <= Len(line) /\ IsDigit(line[j]) THEN SkipDigits(line, j + 1) ELSE j

\* .* from index j: the index of the next line terminator
RECURSIVE SkipToEol(_, _)
SkipToEol(line, j) ==
    IF j <= Len(line) /\ line[j] # "\n" THEN SkipToEol(line, j + 1) ELSE j

NoMatch == [ok |-> FALSE, cap |-> <<>>]

\* the pattern  ;\s*<literal>\s*=\s*(<group>)  tried at index i, where <group>
\* is \d+\.?\d* when numeric and .* otherwise
MatchAt(line, i, literal, numeric) ==
    LET j == SkipWs(line, i + 1)
        k == SkipWs(line, j + 1)
        m == SkipWs(line, k + 1)
        d == SkipDigits(line, m)
        e == IF d <= Len(line) /\ line[d] = "." THEN SkipDigits(line, d + 1) ELSE d
    IN  IF /\ line[i] = ";"
           /\ j <= Len(line) /\ line[j] = literal
           /\ k <= Len(line) /\ line[k] = "="
        THEN IF numeric
             THEN IF d > m THEN [ok |-> TRUE, cap |-> SubSeq(line, m, e - 1)] ELSE NoMatch
             ELSE [ok |-> TRUE, cap |-> SubSeq(line, m, SkipToEol(line, m) - 1)]
        ELSE NoMatch

\* pattern.search(line): the leftmost index where the pattern matches
Search(line, literal, numeric) ==
    LET hits == {i \in 1..Len(line) : MatchAt(line, i, literal, numeric).ok}
    IN  IF hits = {} THEN NoMatch
        ELSE MatchAt(line, CHOOSE i \in hits : \A h \in hits : i <= h, literal, numeric)

NoStats == [estimated_printing_time |-> NoneV, total_filament_cost |-> NoneV,
            total_filament_used |-> NoneV]

stats_line_elif(st, line) ==
    LET time_match == Search(line, TIME, FALSE)
        cost_match == Search(line, COST, TRUE)
        filament_used_match == Search(line, USED, TRUE)
    IN  IF time_match.ok
        THEN [st EXCEPT !.estimated_printing_time = PyStr(Strip(time_match.cap))]
        ELSE IF cost_match.ok
        THEN [st EXCEPT !.total_filament_cost = PyFloat(ParseFloat(cost_match.cap))]
        ELSE IF filament_used_match.ok
        THEN [st EXCEPT !.total_filament_used = PyFloat(ParseFloat(filament_used_match.cap))]
        ELSE st

\* lines 89-98: the body of the loop, for one line
stats_line(st, line) ==
    LET time_match == Search(line, TIME, FALSE)
        cost_match == Search(line, COST, TRUE)
        filament_used_match == Search(line, USED, TRUE)
    IN  [estimated_printing_time |->
            IF time_match.ok THEN PyStr(Strip(time_match.cap))
            ELSE st.estimated_printing_time,
         total_filament_cost |->
            IF cost_match.ok THEN PyFloat(ParseFloat(cost_match.cap))
            ELSE st.total_filament_cost,
         total_filament_used |->
            IF filament_used_match.ok THEN PyFloat(ParseFloat(filament_used_match.cap))
            ELSE st.total_filament_used]

RECURSIVE stats_loop(_, _)
stats_loop(st, lines) ==
    IF lines = <<>> THEN st ELSE stats_loop(stats_line(st, lines[1]), Tail(lines))

\* lines 74-100
parse_3d_printing_stats(lines) == stats_loop(NoStats, lines)

-----------------------------------------------------------------------------
(* remove_semicolon_lines                                                  *)

\* file.readlines(): the text cut after every line terminator
RECURSIVE ReadLines(_)
ReadLines(text) ==
    IF text = <<>> THEN <<>>
    ELSE LET e == SkipToEol(text, 1)
         IN  IF e > Len(text) THEN <<text>>
             ELSE <<SubSeq(text, 1, e)>> \o ReadLines(SubSeq(text, e + 1, Len(text)))

\* file.writelines(lines): the lines one after the other, nothing added
RECURSIVE WriteLines(_)
WriteLines(lines) ==
    IF lines = <<>> THEN <<>> ELSE lines[1] \o WriteLines(Tail(lines))

\* lines 216-224
header_lines(welding_speed, line_width, layer_height, first_layer_height, st) ==
    << <<";", " ", "Welding speed", " ", "=", " ">> \o Str(welding_speed) \o <<"\n">>,
       <<";", " ", "Line_width", " ", "=", " ">> \o Str(line_width) \o <<"\n">>,
       <<";", " ", "Layer_height", " ", "=", " ">> \o Str(layer_height) \o <<"\n">>,
       <<";", " ", "First_layer_height", " ", "=", " ">> \o Str(first_layer_height)
            \o <<"\n">>,
       <<"Estimated_printing_time", " ", "=", " ">> \o Str(st.estimated_printing_time)
            \o <<"\n">>,
       <<"Total_filament_cost", " ", "=", " ">> \o Str(st.total_filament_cost) \o <<"\n">>,
       <<"Total_filament_used", " ", "=", " ">> \o Str(st.total_filament_used) \o <<"\n">> >>

\* re.compile(r'^\t; <name>\s*=\s*\S+').match(text)
annotation_match(text, name) ==
    LET k == SkipWs(text, 5)
        m == SkipWs(text, k + 1)
    IN  /\ Len(text) >= 4
        /\ text[1] = "\t" /\ text[2] = ";" /\ text[3] = " " /\ text[4] = name
        /\ k <= Len(text) /\ text[k] = "="
        /\ m <= Len(text)

clean_line_drop_comment_lines(line) ==
    IF IndexOf(Strip(line), ";") # 0 THEN <<>> ELSE <<line>>

\* lines 236-247: what one line contributes to cleaned_lines
clean_line(line) ==
    LET stripped_line == Strip(line)
        semi == IndexOf(stripped_line, ";")
        cleaned_line == Strip(SubSeq(stripped_line, 1, semi - 1))
    IN  IF semi # 0
        THEN IF annotation_match(stripped_line, "layer_height")
                \/ annotation_match(stripped_line, "first_layer_height")
             THEN <<line>>
             ELSE IF cleaned_line # <<>> THEN <<cleaned_line \o <<"\n">>>> ELSE <<>>
        ELSE <<line>>

RECURSIVE clean_lines(_)
clean_lines(lines) ==
    IF lines = <<>> THEN <<>> ELSE clean_line(lines[1]) \o clean_lines(Tail(lines))

\* lines 213-252: the text of output_file after the call, given that of input_file
remove_semicolon_lines(text, welding_speed, line_width, layer_height, first_layer_height, st) ==
    WriteLines(header_lines(welding_speed, line_width, layer_height,
                            first_layer_height, st))
        \o WriteLines(clean_lines(ReadLines(text)))

-----------------------------------------------------------------------------
(* cli(): validation, translation and output                               *)

\* gcode2as.formatter.format_program: the dialect's program header, one
\* instruction per line, the footer
format_program(instructions, filename) ==
    <<".PROGRAM", " ", filename, "\n">>
        \o WriteLines([i \in 1..Len(instructions) |-> instructions[i] \o <<"\n">>])
        \o <<".END", "\n">>

\* the source files of the runs of the model
SlicedSource ==
    <<<<";", " ", COST, " ", "=", " ", "1", "2", ".", "5", "\n">>,
      <<";", " ", TIME, " ", "=", " ", "1", "h", "\n">>>>

SampleSources == {<<<<"G", "1", " ", "X", "1", "\n">>>>, SlicedSource}

\* lines 174-184
ValidateMode ==
    /\ pc = "validate_mode"
    /\ mode' = config.d["mode"]
    /\ IF FloatOk(config.d["min_dist"])
       THEN /\ min_distance' = ParseFloat(config.d["min_dist"])
            /\ pc' = IF mode' \notin modes THEN "aborted" ELSE "validate_min"
       ELSE /\ min_distance' = min_distance
            /\ pc' = "crashed"
    /\ UNCHANGED <<inp, srcLines, config, options, param_dict, hdr, executeCalls,
                   lines_as, formatted, outFile, paramsOut, stats, simplifierVars>>

\* lines 187-191: float() of what getfloat returned; it raises no ValueError,
\* so the except branch is never taken
ValidateMinDistance ==
    /\ pc = "validate_min"
    /\ min_distance' = min_distance
    /\ pc' = "execute"
    /\ UNCHANGED <<inp, srcLines, config, options, param_dict, hdr, mode,
                   executeCalls, lines_as, formatted, outFile, paramsOut, stats,
                   simplifierVars>>

after_execute_ignores_none(result) == "write"

\* lines 197-198
after_execute(result) == IF result.none THEN "aborted" ELSE "write"

\* lines 194-198: execute returns an instruction sequence or None
ExecuteReturns ==
    /\ pc = "execute"
    /\ executeCalls' = Append(executeCalls,
                              [min_distance |-> min_distance, params |-> config.d])
    /\ \E result \in {NotRun} \cup {[none |-> FALSE, lines |-> p] : p \in Programs} :
            /\ lines_as' = result
            /\ pc' = after_execute(result)
    /\ UNCHANGED <<inp, srcLines, config, options, param_dict, hdr, mode, min_distance,
                   formatted, outFile, paramsOut, stats, simplifierVars>>

\* line 194: the translator fails (UnsupportedCommand, ParseError); cli catches nothing
ExecuteRaises ==
    /\ pc = "execute"
    /\ executeCalls' = Append(executeCalls,
                              [min_distance |-> min_distance, params |-> config.d])
    /\ pc' = "crashed"
    /\ UNCHANGED <<inp, srcLines, config, options, param_dict, hdr, mode, min_distance,
                   lines_as, formatted, outFile, paramsOut, stats, simplifierVars>>

\* lines 201-211
FormatAndWrite ==
    /\ pc = "write"
    /\ formatted' = format_program(lines_as.lines, "part")
    /\ outFile' = formatted'
    /\ pc' = "stats"
    /\ UNCHANGED <<inp, srcLines, config, options, param_dict, hdr, mode, min_distance,
                   executeCalls, lines_as, paramsOut, stats, simplifierVars>>

\* line 255
ParseStats ==
    /\ pc = "stats"
    /\ stats' = parse_3d_printing_stats(srcLines)
    /\ pc' = "clean"
    /\ UNCHANGED <<inp, srcLines, config, options, param_dict, hdr, mode, min_distance,
                   executeCalls, lines_as, formatted, outFile, paramsOut, simplifierVars>>

\* lines 258-262: input and output are the same path
RemoveSemicolonLines ==
    /\ pc = "clean"
    /\ outFile' = remove_semicolon_lines(outFile, hdr.welding_speed, hdr.line_width,
                                         hdr.layer_height, hdr.first_layer_height, stats)
    /\ pc' = "done"
    /\ UNCHANGED <<inp, srcLines, config, options, param_dict, hdr, mode, min_distance,
                   executeCalls, lines_as, formatted, paramsOut, stats, simplifierVars>>

Init ==
    \E S \in {T \in SettingSets(MaxSettings) : Consistent(T)} :
        \E hasSection \in BOOLEAN, src \in SampleSources :
            InitCli(S, hasSection, src)

Next ==
    \/ ReadInputParameters
    \/ ParseOptionsIni
    \/ BuildParamDict
    \/ UpdateParametersBasedOnInput
    \/ UpdateConfig
    \/ ValidateMode
    \/ ValidateMinDistance
    \/ ExecuteReturns
    \/ ExecuteRaises
    \/ FormatAndWrite
    \/ ParseStats
    \/ RemoveSemicolonLines

Spec == Init /\ [][Next]_vars

-----------------------------------------------------------------------------
(* Properties of a run of cli()                                            *)

NumericKeys == {"min_dist", "welding_speed", "line_width", "layer_height",
                "first_layer_height"}

\* what a text of the configuration means: a number for the numeric keys
ValueOf(key, text) == IF key \in NumericKeys THEN ParseFloat(text) ELSE text

\* the value the precedence CLI flag > options file > parameter file > default
\* gives a key
Precedence(key) ==
    IF inp.cli[key] # NoneV THEN Str(inp.cli[key])
    ELSE IF key \in DOMAIN inp.optionsIni THEN inp.optionsIni[key]
    ELSE IF key \in DOMAIN inp.paramFile.default THEN inp.paramFile.default[key]
    ELSE Str(default_params(key))

NothingSet ==
    /\ \A k \in Keys : inp.cli[k] = NoneV
    /\ DOMAIN inp.optionsIni = {}
    /\ DOMAIN inp.paramFile.default = {}

\* the value printed in header line i of the output file
HeaderValue(i) ==
    LET line == ReadLines(outFile)[i]
    IN  ParseFloat(SubSeq(line, 7, Len(line) - 1))

\* C1: every parameter handed to the translator has the value the precedence
\* CLI flag > options file > parameter file > built-in default gives it.
C1_PrecedenceCliOptionsFileDefault ==
    executeCalls # <<>> =>
        \A k \in Keys :
            ValueOf(k, executeCalls[1].params[k]) = ValueOf(k, Precedence(k))

\* C2: execute is invoked only when the resolved mode is a known mode and the
\* resolved min_distance is not negative.
C2_ConfigErrorsAbortBeforeExecute ==
    executeCalls # <<>> => (mode \in modes /\ min_distance >= 0)

\* C3: the output program is written only after execute has returned an
\* instruction sequence; a run that aborts leaves no output program.
C3_NoPartialOutput ==
    /\ outFile # <<>> => (Len(executeCalls) = 1 /\ ~lines_as.none)
    /\ pc \in {"aborted", "crashed"} => outFile = <<>>

C3_Witness ==
    /\ pc = "done"
    /\ ~lines_as.none
    /\ outFile # <<>>

\* C5: with no CLI flag, no options.ini value and no parameter file value, the
\* translator is handed min_dist 2, vase_mode false, welding_speed 30.0,
\* inverted false, line_width 2.4, layer_height 1, first_layer_height 1.2, and
\* the min_distance argument is the resolved min_dist.
C5_DefaultsHandedToTranslator ==
    (executeCalls # <<>> /\ NothingSet) =>
        LET call == executeCalls[1]
        IN  /\ ParseFloat(call.params["min_dist"]) = 20
            /\ call.params["vase_mode"] = <<"False">>
            /\ ParseFloat(call.params["welding_speed"]) = 300
            /\ call.params["inverted"] = <<"False">>
            /\ ParseFloat(call.params["line_width"]) = 24
            /\ ParseFloat(call.params["layer_height"]) = 10
            /\ ParseFloat(call.params["first_layer_height"]) = 12
            /\ call.min_distance = ParseFloat(call.params["min_dist"])

C5_Witness ==
    /\ executeCalls # <<>>
    /\ NothingSet

\* C10: in a completed run, the four values printed in the header of the
\* output file equal the values of the same keys in the params handed to execute.
C10_HeaderEqualsParams ==
    pc = "done" =>
        \A i \in 1..Len(HeaderKeys) :
            HeaderValue(i) = ParseFloat(executeCalls[1].params[HeaderKeys[i]])

-----------------------------------------------------------------------------
(* remove_semicolon_lines on its own: every formatted program of a bounded  *)
(* size                                                                    *)

\* the tokens of the formatted programs: whitespace, the comment sign, an
\* instruction character, the line terminator
CleanAlphabet == {"\t", ";", "G", "\n"}

\* the tab-indented annotations the two patterns of lines 227-228 describe
Annotations ==
    {<<"\t", ";", " ", "layer_height", " ", "=", " ", "1", "\n">>,
     <<"\t", ";", " ", "first_layer_height", "=", "2", "\n">>}

\* the length of the program text, in tokens, besides an annotation line
MaxFileLen == 6

RECURSIVE TextsUpTo(_)
TextsUpTo(n) ==
    IF n = 0 THEN {<<>>}
    ELSE LET shorter == TextsUpTo(n - 1)
         IN  shorter \cup {Append(t, c) : t \in {u \in shorter : Len(u) = n - 1},
                                          c \in CleanAlphabet}

CleanInputs ==
    LET bodies == TextsUpTo(MaxFileLen)
    IN  bodies
        \cup {a \o b : a \in Annotations, b \in bodies}
        \cup {b \o a : a \in Annotations, b \in bodies}

InitClean ==
    /\ pc = "clean"
    /\ formatted \in CleanInputs
    /\ outFile = formatted
    /\ srcLines = SlicedSource
    /\ stats = parse_3d_printing_stats(srcLines)
    /\ hdr = [k \in {HeaderKeys[i] : i \in 1..Len(HeaderKeys)} |-> default_params(k)]
    /\ inp = Environment({}, TRUE)
    /\ config = ConfigNone
    /\ options = EmptyMap
    /\ param_dict = EmptyMap
    /\ mode = <<>>
    /\ min_distance = 0
    /\ executeCalls = <<>>
    /\ lines_as = NotRun
    /\ paramsOut = EmptyMap
    /\ commands = <<>>
    /\ minDist = 0
    /\ simplified = <<>>

NextClean == RemoveSemicolonLines

SpecClean == InitClean /\ [][NextClean]_vars

HasSemicolon(line) == IndexOf(line, ";") # 0

\* the part of a line before its first ';'
BeforeSemicolon(line) == SubSeq(line, 1, IndexOf(line, ";") - 1)

Blank(text) == \A i \in 1..Len(text) : IsSpace(text[i])

TheHeader ==
    header_lines(hdr.welding_speed, hdr.line_width, hdr.layer_height,
                 hdr.first_layer_height, stats)

\* the lines of the final file after the seven header lines
BodyOfOutput ==
    LET lines == ReadLines(outFile)
    IN  SubSeq(lines, Len(TheHeader) + 1, Len(lines))

DroppedLine(line) == HasSemicolon(line) /\ Blank(BeforeSemicolon(line))

NotDropped(line) == ~DroppedLine(line)

\* the input lines that are not removed, in their original order
Surviving(lines) == SelectSeq(lines, NotDropped)

\* a line cut at its first ';': what precedes the ';', blanks before the ';'
\* aside, and the line terminator
CutLine(line) ==
    IF HasSemicolon(line) THEN RStrip(BeforeSemicolon(line)) \o <<"\n">> ELSE line

\* a line cut at its first ';' and stripped of leading and trailing whitespace
CutAndStrippedLine(line) ==
    IF HasSemicolon(line) THEN Strip(BeforeSemicolon(line)) \o <<"\n">> ELSE line

\* C4 as stated: the final file is the seven header lines followed by the input
\* lines in order, a line with ';' cut at its first ';' (its indentation kept)
\* and removed only when nothing but whitespace precedes the ';', a line
\* without ';' unchanged.
C4_CutAtFirstSemicolon ==
    pc = "done" =>
        /\ Len(TheHeader) = 7
        /\ SubSeq(ReadLines(outFile), 1, 7) = TheHeader
        /\ BodyOfOutput = [i \in 1..Len(Surviving(ReadLines(formatted))) |->
                                CutLine(Surviving(ReadLines(formatted))[i])]

\* C4 amended: as above, but a line with ';' is also stripped of its leading
\* and trailing whitespace and ends with a line terminator.
C4_CutAndStripped ==
    pc = "done" =>
        /\ Len(TheHeader) = 7
        /\ SubSeq(ReadLines(outFile), 1, 7) = TheHeader
        /\ BodyOfOutput = [i \in 1..Len(Surviving(ReadLines(formatted))) |->
                                CutAndStrippedLine(Surviving(ReadLines(formatted))[i])]

\* a program with an indented instruction followed by a comment, a line that
\* is only a comment, and a line without ';'
C4_Witness ==
    /\ pc = "done"
    /\ \E i \in 1..Len(ReadLines(formatted)) :
        LET line == ReadLines(formatted)[i]
        IN  /\ HasSemicolon(line)
            /\ ~Blank(BeforeSemicolon(line))
            /\ IsSpace(line[1])
    /\ \E i \in 1..Len(ReadLines(formatted)) : DroppedLine(ReadLines(formatted)[i])
    /\ \E i \in 1..Len(ReadLines(formatted)) : ~HasSemicolon(ReadLines(formatted)[i])

IsAnnotation(line) ==
    annotation_match(line, "layer_height") \/ annotation_match(line, "first_layer_height")

\* C9: a tab-indented annotation '<TAB>; layer_height = <value>' or
\* '<TAB>; first_layer_height = <value>' of the formatted program is kept
\* verbatim in the final file.
C9_AnnotationKeptVerbatim ==
    pc = "done" =>
        \A i \in 1..Len(ReadLines(formatted)) :
            IsAnnotation(ReadLines(formatted)[i]) =>
                \E j \in 1..Len(BodyOfOutput) : BodyOfOutput[j] = ReadLines(formatted)[i]

-----------------------------------------------------------------------------
(* parse_3d_printing_stats on its own: every source file of a few lines    *)

StatValues ==
    {<<" ", "1", "2", ".", "5">>, <<"3">>, <<" ", "x", "h">>, <<>>}

\* comment lines of a slicer, well formed and not, and lines that match two
\* patterns at once
StatLineSet ==
    {<<";", " ", key, " ", "=">> \o val \o <<"\n">> :
        key \in {TIME, COST, USED}, val \in StatValues}
    \cup {<<";", COST, " ", "7", "\n">>,
          <<"G", "1", " ", ";", USED, "=", "4", ".", "\n">>,
          <<";", COST, "=", "1", " ", ";", " ", USED, "=", "2", "\n">>,
          <<";", TIME, "=", "9", "m", " ", ";", COST, "=", "8", "\n">>,
          <<"G", "1", " ", "X", "1", "\n">>}

\* the number of lines of the source file
MaxSrcLines == 2

RECURSIVE SourcesUpTo(_)
SourcesUpTo(n) ==
    IF n = 0 THEN {<<>>}
    ELSE LET shorter == SourcesUpTo(n - 1)
         IN  shorter \cup {Append(f, l) : f \in {g \in shorter : Len(g) = n - 1},
                                          l \in StatLineSet}

InitStats ==
    /\ pc = "stats"
    /\ srcLines \in SourcesUpTo(MaxSrcLines)
    /\ stats = NoStats
    /\ formatted = <<>>
    /\ outFile = <<>>
    /\ hdr = [k \in {HeaderKeys[i] : i \in 1..Len(HeaderKeys)} |-> default_params(k)]
    /\ inp = Environment({}, TRUE)
    /\ config = ConfigNone
    /\ options = EmptyMap
    /\ param_dict = EmptyMap
    /\ mode = <<>>
    /\ min_distance = 0
    /\ executeCalls = <<>>
    /\ lines_as = NotRun
    /\ paramsOut = EmptyMap
    /\ commands = <<>>
    /\ minDist = 0
    /\ simplified = <<>>

NextStats == ParseStats

SpecStats == InitStats /\ [][NextStats]_vars

\* the lines of the source file that match a statistic's pattern
MatchingLines(literal, numeric) ==
    {i \in 1..Len(srcLines) : Search(srcLines[i], literal, numeric).ok}

\* the value captured from the last matching line, None when no line matches
LastCaptured(literal, numeric) ==
    LET M == MatchingLines(literal, numeric)
        last == CHOOSE i \in M : \A j \in M : j <= i
        cap == Search(srcLines[last], literal, numeric).cap
    IN  IF M = {} THEN NoneV
        ELSE IF numeric THEN PyFloat(ParseFloat(cap)) ELSE PyStr(Strip(cap))

\* C8: each of the three statistics is the value captured from the last line
\* that matches its pattern, None when none matches, whatever the other two
\* patterns match.
C8_LastMatchPerStatistic ==
    pc = "clean" =>
        /\ stats.estimated_printing_time = LastCaptured(TIME, FALSE)
        /\ stats.total_filament_cost = LastCaptured(COST, TRUE)
        /\ stats.total_filament_used = LastCaptured(USED, TRUE)

\* a file where one line matches two patterns, a statistic is matched by two
\* lines and another by none
C8_Witness ==
    /\ pc = "clean"
    /\ MatchingLines(TIME, FALSE) \cap MatchingLines(COST, TRUE) # {}
    /\ Cardinality(MatchingLines(COST, TRUE)) = 2
    /\ MatchingLines(USED, TRUE) = {}

-----------------------------------------------------------------------------
(* The translation engine: ToolStateTracker, PathSimplifier and the FDM    *)
(* translator, as the design states their contracts (sections 4.2-4.4).    *)
(* Coordinates are in halves and extrusion in fifths, so that 0.5 is 1,    *)
(* 10 is 20 and e=5.2 is 26; a threshold d = 2 is 4.                       *)

\* a rapid move carries no extrusion value
RapidMove(x, y) == [kind |-> "RapidMove", x |-> x, y |-> y, hasE |-> FALSE, e |-> 0]

LinearMove(x, y, e) == [kind |-> "LinearMove", x |-> x, y |-> y, hasE |-> TRUE, e |-> e]

\* a linear move without an E word
TravelMove(x, y) == [kind |-> "LinearMove", x |-> x, y |-> y, hasE |-> FALSE, e |-> 0]

Positions == {<<0, 0>>, <<20, 0>>, <<20, 1>>}

CommandSet ==
    {RapidMove(p[1], p[2]) : p \in Positions}
    \cup {TravelMove(p[1], p[2]) : p \in Positions}
    \cup {LinearMove(p[1], p[2], e) : p \in Positions, e \in {25, 26}}

\* the thresholds of the runs: simplification disabled, and d = 2
Thresholds == {0, 4}

\* the number of commands of the stream
MaxCommands == 3

RECURSIVE StreamsUpTo(_)
StreamsUpTo(n) ==
    IF n = 0 THEN {<<>>}
    ELSE LET shorter == StreamsUpTo(n - 1)
         IN  shorter \cup {Append(f, c) : f \in {g \in shorter : Len(g) = n - 1},
                                          c \in CommandSet}

\* ToolStateTracker, FDM: the cumulative extrusion after command i; a command
\* without an extrusion value leaves it as it was
RECURSIVE Extrusion(_, _)
Extrusion(cmds, i) ==
    IF i = 0 THEN 0
    ELSE IF cmds[i].hasE THEN cmds[i].e ELSE Extrusion(cmds, i - 1)

\* the post-state waypoints: the tool is active where the extrusion grew
Waypoints(cmds) ==
    [i \in 1..Len(cmds) |->
        [x |-> cmds[i].x, y |-> cmds[i].y, src |-> i,
         tool |-> Extrusion(cmds, i) > Extrusion(cmds, i - 1)]]

\* Euclidean distance(p, q) < d, on the squares
Closer(p, q, d) ==
    (p.x - q.x) * (p.x - q.x) + (p.y - q.y) * (p.y - q.y) < d * d

Forced_without_lookahead(w, i) ==
    \/ i = 1
    \/ w[i].tool # w[i - 1].tool

Forced_without_run_end(w, i) ==
    \/ i = 1
    \/ w[i].tool # w[i - 1].tool
    \/ i < Len(w) /\ w[i + 1].tool # w[i].tool

\* rules (a) and (c): the first waypoint, the waypoints on either side of a
\* change of tool state, and the last waypoint of an active run are retained
Forced(w, i) ==
    \/ i = 1
    \/ w[i].tool # w[i - 1].tool
    \/ i < Len(w) /\ w[i + 1].tool # w[i].tool
    \/ i = Len(w) /\ w[i].tool

\* one greedy pass: kept is what is retained of the first i - 1 waypoints
RECURSIVE SimplifyFrom(_, _, _, _)
SimplifyFrom(w, d, i, kept) ==
    IF i > Len(w) THEN kept
    ELSE IF d <= 0 \/ Forced(w, i) \/ ~Closer(w[i], kept[Len(kept)], d)
         THEN SimplifyFrom(w, d, i + 1, Append(kept, w[i]))
         ELSE SimplifyFrom(w, d, i + 1, kept)

PathSimplifier(w, d) == SimplifyFrom(w, d, 1, <<>>)

\* the FDM translator: one motion instruction per retained waypoint, a deposit
\* where the tool is active and a travel where it is not
FDMTranslate(points) ==
    [i \in 1..Len(points) |->
        [op |-> IF points[i].tool THEN "deposit" ELSE "travel",
         x |-> points[i].x, y |-> points[i].y]]

InitSimplify ==
    /\ pc = "parsed"
    /\ commands \in StreamsUpTo(MaxCommands)
    /\ minDist \in Thresholds
    /\ simplified = <<>>
    /\ srcLines = <<>>
    /\ stats = NoStats
    /\ formatted = <<>>
    /\ outFile = <<>>
    /\ hdr = [k \in {HeaderKeys[i] : i \in 1..Len(HeaderKeys)} |-> default_params(k)]
    /\ inp = Environment({}, TRUE)
    /\ config = ConfigNone
    /\ options = EmptyMap
    /\ param_dict = EmptyMap
    /\ mode = <<>>
    /\ min_distance = 0
    /\ executeCalls = <<>>
    /\ lines_as = NotRun
    /\ paramsOut = EmptyMap

Simplify ==
    /\ pc = "parsed"
    /\ simplified' = PathSimplifier(Waypoints(commands), minDist)
    /\ pc' = "simplified"
    /\ UNCHANGED <<inp, srcLines, config, options, param_dict, hdr, mode, min_distance,
                   executeCalls, lines_as, formatted, outFile, paramsOut, stats,
                   commands, minDist>>

NextSimplify == Simplify

SpecSimplify == InitSimplify /\ [][NextSimplify]_vars

Retained(i) == \E k \in 1..Len(simplified) : simplified[k].src = i

\* C6: whenever two consecutive waypoints differ in tool state, the one before
\* the change and the one after it are both in the simplified output, whatever
\* the threshold and their distance to the last retained point.
C6_TransitionsRetained ==
    pc = "simplified" =>
        \A i \in 1..(Len(commands) - 1) :
            Waypoints(commands)[i].tool # Waypoints(commands)[i + 1].tool
                => (Retained(i) /\ Retained(i + 1))

\* a change of tool state between two waypoints closer than the threshold,
\* the first of which is itself closer than the threshold to the last
\* retained point
C6_Witness ==
    /\ pc = "simplified"
    /\ minDist > 0
    /\ \E i \in 2..(Len(commands) - 1) :
        LET w == Waypoints(commands)
        IN  /\ w[i].tool # w[i + 1].tool
            /\ w[i].tool = w[i - 1].tool
            /\ Closer(w[i], w[i - 1], minDist)
            /\ Closer(w[i + 1], w[i], minDist)

Scenario ==
    /\ commands = <<RapidMove(0, 0), LinearMove(20, 0, 25), LinearMove(20, 1, 26)>>
    /\ minDist = 4

====
